---- MODULE Spec2Model ----
(***************************************************************************)
(* Model of theanets/recurrent.py: the Text corpus class (alphabet index,  *)
(* encode, decode, classifier_batches), the windowed sampler batches(),    *)
(* and the generator Classifier.predict_sequence.                          *)
(*                                                                         *)
(* Characters are the integers 1..NumChars, ordered as their code points;  *)
(* a string is a sequence of characters.  Array indices are 0-based as in  *)
(* the source; a Python list or numpy axis of length n is a function on    *)
(* 0..n-1 unless it is a string handled with Sequences.                    *)
(***************************************************************************)
EXTENDS Integers, Sequences, FiniteSets, TLC

VARIABLES args, call, self, tpc, cb, ret,
          bargs, sampler, xs,
          pargs, gpc, inputs, i, emitted, queries, lastq, hist

\* args, call   arguments of Text(...) and of the call made on the Text
\* self, tpc    the Text object and the outcome of its construction
\* cb, ret      the closure of classifier_batches and the last return value
\* bargs, sampler, xs   arguments of batches(), its closure, the last sample
\* pargs        arguments of predict_sequence
\* gpc          position of the generator: created, suspended at the yield,
\*              done (StopIteration) or error (an exception left it)
\* inputs, i    the locals inputs and i of predict_sequence
\* emitted      the values yielded so far
\* queries      number of predict_proba calls made so far
\* lastq        the last predict_proba call: rows and time steps passed, the
\*              time index whose distributions were used, those
\*              distributions and the list chars built from them
\* hist         the list chars of every emitted step

vars == <<args, call, self, tpc, cb, ret, bargs, sampler, xs,
          pargs, gpc, inputs, i, emitted, queries, lastq, hist>>

textVars == <<args, call, self, tpc, cb, ret>>
batchVars == <<bargs, sampler, xs>>
seqVars == <<pargs, gpc, inputs, i, emitted, queries, lastq, hist>>

\* ---------------------------------------------------------------- bounds
\* Text, encode, decode
NumChars == 3
MaxLen == 3
MaxAlpha == 2
MaxCount == 2
MaxTxt == 2
MaxCodes == 2
\* corpora of classifier_batches
CorpusChars == 2
MaxCorpus == 4
CorpusCount == 1
\* batches and classifier_batches
MaxSteps == 2
MaxBatch == 2
MaxTime == 3
\* predict_sequence
MaxSeed == 1
MaxGen == 2
MaxStreams == 3
LayerSize == 2

Chars == 1..NumChars

Range(s) == {s[p] : p \in DOMAIN s}

SeqsUpTo(S, n) == UNION {[1..k -> S] : k \in 0..n}

Max(S) == CHOOSE m \in S : \A x \in S : x <= m

Min(S) == CHOOSE m \in S : \A x \in S : m <= x

\* ------------------------------------------------------------------ Text

\* collections.Counter(text)[char]
Counter(text, char) == Cardinality({p \in DOMAIN text : text[p] = char})

\* ''.join(sorted(set(...)))
RECURSIVE sorted(_)
sorted(S) == IF S = {} THEN <<>> ELSE <<Min(S)>> \o sorted(S \ {Min(S)})

\* the alphabet inferred from the text (alpha is None)
InferAlpha(text, min_count, unknown) ==
    sorted({char \in Range(text) :
              char # unknown /\ Counter(text, char) >= min_count})

\* re.sub('[^<alpha>]', unknown, text): the pattern is the negated character
\* class of the escaped alphabet; an empty class "[^]" does not compile.
RePatternCompiles(alpha) == Len(alpha) > 0

ReSub(alpha, unknown, text) ==
    [p \in DOMAIN text |->
        IF text[p] \in Range(alpha) THEN text[p] ELSE unknown]

\* self._rev_index = unknown + self.alpha
RevIndex(alpha, unknown) == <<unknown>> \o alpha

\* dict(zip(rev, range(1 + len(alpha)))): a later pair overwrites an earlier
\* pair with the same key.
FwdIndex(rev) ==
    [char \in Range(rev) |->
        Max({c \in 0..(Len(rev) - 1) : rev[c + 1] = char})]

NoText == [alpha |-> <<>>, text |-> <<>>, rev_index |-> <<>>,
           fwd_index |-> <<>>]

NoRet == [op |-> "none"]

\* the largest alphabet a constructed Text can have within the bounds
MaxIndex == IF NumChars > MaxAlpha THEN NumChars ELSE MaxAlpha

Codes == (0 - (MaxIndex + 2))..(MaxIndex + 1)

\* the calls made on a constructed Text
TextCalls ==
    {[op |-> "encode", txt |-> t] : t \in SeqsUpTo(Chars, MaxTxt)} \cup
    {[op |-> "decode", enc |-> e] : e \in SeqsUpTo(Codes, MaxCodes)}

CBCalls ==
    {[op |-> "classifier_batches", steps |-> s, batch_size |-> b] :
        s \in 0..MaxSteps, b \in 1..MaxBatch}

AlphaArgs ==
    {[none |-> TRUE, s |-> <<>>]} \cup
    {[none |-> FALSE, s |-> a] : a \in SeqsUpTo(Chars, MaxAlpha)}

\* list(self._fwd_index.get(c, 0) for c in txt)
encode(fwd, txt) ==
    [p \in DOMAIN txt |->
        IF txt[p] \in DOMAIN fwd THEN fwd[txt[p]] ELSE 0]

\* Python sequence indexing s[c]: indices -len..-1 count from the end,
\* anything outside -len..len-1 raises IndexError.
PyIndexOk(s, c) == c >= 0 - Len(s) /\ c < Len(s)

PyIndex(s, c) == IF c >= 0 THEN s[c + 1] ELSE s[Len(s) + c + 1]

decodeOk(rev, enc) == \A p \in DOMAIN enc : PyIndexOk(rev, enc[p])

decode(rev, enc) == [p \in DOMAIN enc |-> PyIndex(rev, enc[p])]

AlphabetSize == Len(self.alpha)

\* Text.__init__(text, alpha, min_count, unknown)
TextInitOp ==
    /\ tpc = "new"
    /\ LET alpha == IF args.alpha.none
                    THEN InferAlpha(args.text, args.min_count, args.unknown)
                    ELSE args.alpha.s
       IN  IF ~RePatternCompiles(alpha)
           THEN /\ tpc' = "re_error"
                /\ self' = [NoText EXCEPT !.alpha = alpha]
           ELSE IF args.unknown \in Range(alpha)
           THEN /\ tpc' = "assert_error"
                /\ self' = [NoText EXCEPT
                              !.alpha = alpha,
                              !.text = ReSub(alpha, args.unknown, args.text)]
           ELSE /\ tpc' = "ok"
                /\ self' = [alpha |-> alpha,
                            text |-> ReSub(alpha, args.unknown, args.text),
                            rev_index |-> RevIndex(alpha, args.unknown),
                            fwd_index |->
                                FwdIndex(RevIndex(alpha, args.unknown))]
    /\ UNCHANGED <<args, call, cb, ret, batchVars, seqVars>>

\* Text.encode(txt)
Encode ==
    /\ tpc = "ok"
    /\ call.op = "encode"
    /\ ret' = [op |-> "encode", out |-> encode(self.fwd_index, call.txt)]
    /\ UNCHANGED <<args, call, self, tpc, cb, batchVars, seqVars>>

\* Text.decode(enc)
Decode ==
    /\ tpc = "ok"
    /\ call.op = "decode"
    /\ ret' = IF decodeOk(self.rev_index, call.enc)
              THEN [op |-> "decode", status |-> "ok",
                    out |-> decode(self.rev_index, call.enc)]
              ELSE [op |-> "decode", status |-> "IndexError"]
    /\ UNCHANGED <<args, call, self, tpc, cb, batchVars, seqVars>>

NoClosure == [made |-> FALSE]

\* Text.classifier_batches(steps, batch_size): returns the closure batch
ClassifierBatches ==
    /\ tpc = "ok"
    /\ call.op = "classifier_batches"
    /\ IF call.batch_size >= 2
       THEN /\ cb' = [made |-> TRUE, steps |-> call.steps,
                      batch_size |-> call.batch_size]
            /\ ret' = [op |-> "classifier_batches", status |-> "ok"]
       ELSE /\ cb' = NoClosure
            /\ ret' = [op |-> "classifier_batches",
                       status |-> "AssertionError"]
    /\ UNCHANGED <<args, call, self, tpc, batchVars, seqVars>>

\* one row of batch(): the window text[offset:offset + steps + 1] encoded,
\* inputs[b, T, enc[:-1]] = 1 and outputs[b, T] = enc[1:]
BatchRowIn(enc, steps, n) ==
    [t \in 0..(steps - 1) |->
        [c \in 0..n |-> IF c = enc[t + 1] THEN 1 ELSE 0]]

\* BatchRowOut without the shift: outputs[b, T] = enc[:-1]
BatchRowOut_NoShift(enc, steps) == [t \in 0..(steps - 1) |-> enc[t + 1]]

BatchRowOut(enc, steps) == [t \in 0..(steps - 1) |-> enc[t + 2]]

Window(text, offset, steps) == SubSeq(text, offset + 1, offset + steps + 1)

\* the closure batch() returned by classifier_batches
Batch ==
    /\ tpc = "ok"
    /\ cb.made
    /\ LET high == Len(self.text) - cb.steps - 1
       IN  IF high <= 0
           THEN ret' = [op |-> "batch", status |-> "ValueError"]
           ELSE \E offset \in [0..(cb.batch_size - 1) -> 0..(high - 1)] :
                  LET enc(b) == encode(self.fwd_index,
                                       Window(self.text, offset[b], cb.steps))
                  IN  ret' = [op |-> "batch", status |-> "ok",
                              inputs |->
                                 [b \in 0..(cb.batch_size - 1) |->
                                     BatchRowIn(enc(b), cb.steps,
                                                AlphabetSize)],
                              outputs |->
                                 [b \in 0..(cb.batch_size - 1) |->
                                     BatchRowOut(enc(b), cb.steps)]]
    /\ UNCHANGED <<args, call, self, tpc, cb, batchVars, seqVars>>

NoXs == [status |-> "none"]

IdleBatch == bargs = [idle |-> TRUE] /\ sampler = NoClosure /\ xs = NoXs

NoQuery == [made |-> FALSE]

IdleSeq ==
    /\ pargs = [idle |-> TRUE]
    /\ gpc = "idle"
    /\ inputs = <<>>
    /\ i = 0
    /\ emitted = <<>>
    /\ queries = 0
    /\ lastq = NoQuery
    /\ hist = <<>>

IdleText ==
    /\ args = [idle |-> TRUE]
    /\ call = [op |-> "none"]
    /\ self = NoText
    /\ tpc = "idle"
    /\ cb = NoClosure
    /\ ret = NoRet

TextInit ==
    /\ args \in [text : SeqsUpTo(Chars, MaxLen), alpha : AlphaArgs,
                 min_count : 1..MaxCount, unknown : Chars]
    /\ call \in TextCalls
    /\ self = NoText
    /\ tpc = "new"
    /\ cb = NoClosure
    /\ ret = NoRet
    /\ IdleBatch
    /\ IdleSeq

TextNext == TextInitOp \/ Encode \/ Decode

SpecText == TextInit /\ [][TextNext]_vars

\* the corpora batches are drawn from: texts whose alphabet is inferred
CBInit ==
    /\ args \in [text : SeqsUpTo(1..CorpusChars, MaxCorpus),
                 alpha : {[none |-> TRUE, s |-> <<>>]},
                 min_count : 1..CorpusCount, unknown : 1..CorpusChars]
    /\ call \in CBCalls
    /\ self = NoText
    /\ tpc = "new"
    /\ cb = NoClosure
    /\ ret = NoRet
    /\ IdleBatch
    /\ IdleSeq

CBNext == TextInitOp \/ ClassifierBatches \/ Batch

SpecCB == CBInit /\ [][CBNext]_vars

\* ---------------------------------------------------------- Text claims

OneHot(n, code) == [c \in 0..n |-> IF c = code THEN 1 ELSE 0]

\* C1: decode returns text exactly when every code of the sequence lies in
\* [0, alphabet_size]; any other code, negative ones included, makes it
\* fail with a lookup error.
C1_DecodeFailsOutsideRange ==
    ret.op = "decode" =>
        (ret.status = "ok" <=>
            \A p \in DOMAIN call.enc : call.enc[p] \in 0..AlphabetSize)

\* C2: in every constructed Text the unknown symbol has code 0, the k-th
\* alphabet symbol has code k, and encode(decode([c])) = [c] for every code
\* c in [0, alphabet_size].
C2_MapsAreInverses ==
    tpc = "ok" =>
        /\ self.rev_index[1] = args.unknown
        /\ self.fwd_index[args.unknown] = 0
        /\ \A c \in 0..AlphabetSize :
              /\ decodeOk(self.rev_index, <<c>>)
              /\ encode(self.fwd_index, decode(self.rev_index, <<c>>)) = <<c>>

\* C3: construction with an unknown symbol outside the alphabet always
\* succeeds, also when the inferred alphabet is empty, and the cleaned text
\* has the length of the raw text, keeps the symbols of the alphabet and
\* holds the unknown symbol everywhere else.
C3_CleanedText ==
    (tpc # "new" /\ args.unknown \notin Range(self.alpha)) =>
        /\ tpc = "ok"
        /\ Len(self.text) = Len(args.text)
        /\ \A p \in DOMAIN args.text :
              self.text[p] = IF args.text[p] \in Range(self.alpha)
                             THEN args.text[p] ELSE args.unknown
        /\ Range(self.text) \subseteq Range(self.alpha) \cup {args.unknown}

\* C5: every row of a classifier batch is a contiguous window of the corpus:
\* for some offset o with o + steps + 1 <= len(text), inputs[b, t] is the
\* one-hot vector of the code of text[o + t] and targets[b, t] is the code of
\* text[o + t + 1].
C5_TargetsShiftedByOne ==
    (ret.op = "batch" /\ ret.status = "ok") =>
        /\ Len(self.text) > cb.steps + 1
        /\ DOMAIN ret.inputs = 0..(cb.batch_size - 1)
        /\ DOMAIN ret.outputs = 0..(cb.batch_size - 1)
        /\ \A b \in 0..(cb.batch_size - 1) :
              /\ DOMAIN ret.inputs[b] = 0..(cb.steps - 1)
              /\ DOMAIN ret.outputs[b] = 0..(cb.steps - 1)
              /\ \E o \in 0..(Len(self.text) - cb.steps - 1) :
                    \A t \in 0..(cb.steps - 1) :
                       /\ DOMAIN ret.inputs[b][t] = 0..AlphabetSize
                       /\ Cardinality({c \in 0..AlphabetSize :
                                         ret.inputs[b][t][c] = 1}) = 1
                       /\ ret.inputs[b][t] =
                            OneHot(AlphabetSize,
                                   self.fwd_index[self.text[o + t + 1]])
                       /\ ret.outputs[b][t] =
                            self.fwd_index[self.text[o + t + 2]]

\* a batch of windows over a corpus that holds an alphabet symbol and the
\* unknown symbol, with two rows drawn at different offsets
C5_Witness ==
    /\ ret.op = "batch"
    /\ ret.status = "ok"
    /\ cb.steps >= 1
    /\ Range(self.alpha) \cap Range(self.text) # {}
    /\ args.unknown \in Range(self.text)
    /\ \E b1, b2 \in 0..(cb.batch_size - 1) :
          ret.inputs[b1] # ret.inputs[b2]

\* --------------------------------------------------------------- batches

\* the numbers held by the arrays; sample() copies rows without looking at
\* them, two values tell any two windows apart
Vals == {0, 1}

\* an ndarray of shape (total_time, dim): a function from time to rows
NdArrays(total_time, dim) ==
    [0..(total_time - 1) -> [0..(dim - 1) -> Vals]]

\* the lists of arrays handed to batches(): one array of one column, or that
\* array and a second one of two columns over the same time steps
ArrayLists(total_time) ==
    {[k \in 0..0 |-> a] : a \in NdArrays(total_time, 1)} \cup
    {[k \in 0..1 |-> IF k = 0 THEN a ELSE b] :
        a \in NdArrays(total_time, 1), b \in NdArrays(total_time, 2)}

\* len(a) and a.shape[1]
NdLen(a) == Cardinality(DOMAIN a)

NdDim(a) == Cardinality(DOMAIN a[0])

\* a[j:j+steps] for 0 <= j and j + steps <= len(a)
Slice(a, j, steps) == [t \in 0..(steps - 1) |-> a[j + t]]

\* SampleRow with the second array sliced one time step early
SampleRow_Misaligned(arrays, k, j, steps) ==
    Slice(arrays[k], IF k = 1 /\ j > 0 THEN j - 1 ELSE j, steps)

\* x[i] = a[j:j+steps] for the k-th pair (x, a) of zip(xs, arrays)
SampleRow(arrays, k, j, steps) == Slice(arrays[k], j, steps)

\* batches(arrays, steps, batch_size): returns the closure sample
Batches ==
    /\ bargs.idle = FALSE
    /\ ~sampler.made
    /\ xs = NoXs
    /\ IF bargs.batch_size >= 2
       THEN /\ sampler' = [made |-> TRUE]
            /\ xs' = xs
       ELSE /\ sampler' = sampler
            /\ xs' = [status |-> "AssertionError"]
    /\ UNCHANGED <<bargs, textVars, seqVars>>

\* the closure sample() returned by batches
Sample ==
    /\ sampler.made
    /\ LET arrays == bargs.arrays
           steps == bargs.steps
           batch_size == bargs.batch_size
           high == NdLen(arrays[0]) - steps
       IN  IF high <= 0
           THEN xs' = [status |-> "ValueError"]
           ELSE \E j \in [0..(batch_size - 1) -> 0..(high - 1)] :
                  xs' = [status |-> "ok",
                         val |-> [k \in DOMAIN arrays |->
                                    [r \in 0..(batch_size - 1) |->
                                        SampleRow(arrays, k, j[r], steps)]]]
    /\ UNCHANGED <<bargs, sampler, textVars, seqVars>>

BatchesInit ==
    /\ bargs \in UNION {[idle : {FALSE}, arrays : ArrayLists(total_time),
                         steps : 0..MaxSteps, batch_size : 1..MaxBatch] :
                        total_time \in 1..MaxTime}
    /\ sampler = NoClosure
    /\ xs = NoXs
    /\ IdleText
    /\ IdleSeq

BatchesNext == Batches \/ Sample

SpecBatches == BatchesInit /\ [][BatchesNext]_vars

\* C4: a sample has one array per source array, each of shape
\* (batch_size, steps, feature_dim_k), and every batch row is the window
\* source_k[j : j+steps] of every source array at one and the same offset j,
\* 0 <= j < total_time - steps.
C4_AlignedWindows ==
    xs.status = "ok" =>
        LET arrays == bargs.arrays
            total_time == NdLen(arrays[0])
        IN  /\ bargs.batch_size >= 2
            /\ total_time > bargs.steps
            /\ DOMAIN xs.val = DOMAIN arrays
            /\ \A k \in DOMAIN arrays :
                  /\ DOMAIN xs.val[k] = 0..(bargs.batch_size - 1)
                  /\ \A r \in 0..(bargs.batch_size - 1) :
                        /\ DOMAIN xs.val[k][r] = 0..(bargs.steps - 1)
                        /\ \A t \in 0..(bargs.steps - 1) :
                              DOMAIN xs.val[k][r][t] = 0..(NdDim(arrays[k]) - 1)
            /\ \A r \in 0..(bargs.batch_size - 1) :
                  \E j \in 0..(total_time - bargs.steps - 1) :
                     \A k \in DOMAIN arrays :
                        \A t \in 0..(bargs.steps - 1) :
                           xs.val[k][r][t] = arrays[k][j + t]

\* a sample from two arrays that are not constant in time, with two rows
\* drawn at different offsets
C4_Witness ==
    /\ xs.status = "ok"
    /\ bargs.steps >= 1
    /\ DOMAIN bargs.arrays = 0..1
    /\ \A k \in 0..1 : bargs.arrays[k][0] # bargs.arrays[k][1]
    /\ \E r1, r2 \in 0..(bargs.batch_size - 1) :
          /\ xs.val[0][r1] # xs.val[0][r2]
          /\ xs.val[1][r1] # xs.val[1][r2]

\* ------------------------------------------------------ predict_sequence

\* class labels: the indices of the last axis of inputs, self.layers[0].size
Classes == 0..(LayerSize - 1)

\* a list of n items as a function on 0..n-1
ListLen(l) == Cardinality(DOMAIN l)

Lists(S, n) == [0..(n - 1) -> S]

\* The distributions predict_proba may return for one row and time step, by
\* what rng.multinomial(1, pdf) and pdf.argmax() make of them: a valid pdf
\* is drawn from and any class may come out, an invalid one raises ValueError
\* and has an index of maximum probability.
PDFs ==
    {[ok |-> TRUE, draws |-> Classes, argmax |-> 0]} \cup
    {[ok |-> FALSE, draws |-> {}, argmax |-> c] : c \in Classes}

\* try: c = rng.multinomial(1, pdf).argmax()  except ValueError: c = pdf.argmax()
Outcomes(pdf) == IF pdf.ok THEN pdf.draws ELSE {pdf.argmax}

\* a returned distribution with a symbol the try statement can make of it
PdfDraws == UNION {[pdf : {pdf}, c : Outcomes(pdf)] : pdf \in PDFs}

\* batch = max(2, streams)
BatchOf(streams) == IF streams > 2 THEN streams ELSE 2

\* np.zeros((batch, offset + steps, size)); inputs[:, arange(offset), labels] = 1
SeedBuffer(labels, steps, batch) ==
    [r \in 0..(batch - 1) |->
        [t \in 0..(ListLen(labels) + steps - 1) |->
            [c \in Classes |->
                IF t < ListLen(labels) /\ c = labels[t] THEN 1 ELSE 0]]]

\* inputs[:i] slices the first axis of inputs, its rows
QueryRows(buf, idx) ==
    {r \in DOMAIN buf : r < idx}

\* inputs[:i] keeps every index of the second axis, time
QueryTimes(buf, idx) == Cardinality(DOMAIN buf[0])

\* predict_proba(...)[:, -1]: the distributions at the last time step passed
UsedTime(times) == times - 1

\* numpy broadcasts the index arrays arange(batch) and chars: they must have
\* the same length, or chars a single item that then serves every row
CanBroadcast(batch, chars) == ListLen(chars) = batch \/ ListLen(chars) = 1

Broadcast(chars, r) == IF ListLen(chars) = 1 THEN chars[0] ELSE chars[r]

\* WriteStep one time step early: inputs[np.arange(batch), i - 1, chars] = 1
WriteStep_Rewind(buf, idx, chars) ==
    [r \in DOMAIN buf |->
        [t \in DOMAIN buf[r] |->
            IF t = idx - 1
            THEN [c \in Classes |->
                    IF c = Broadcast(chars, r) THEN 1 ELSE buf[r][t][c]]
            ELSE buf[r][t]]]

\* inputs[np.arange(batch), i, chars] = 1
WriteStep(buf, idx, chars) ==
    [r \in DOMAIN buf |->
        [t \in DOMAIN buf[r] |->
            IF t = idx
            THEN [c \in Classes |->
                    IF c = Broadcast(chars, r) THEN 1 ELSE buf[r][t][c]]
            ELSE buf[r][t]]]

\* yield chars[0] if streams == 1 else chars
Yielded(streams, chars) ==
    IF streams = 1 THEN [list |-> FALSE, v |-> chars[0]]
    ELSE [list |-> TRUE, v |-> chars]

\* the for loop of predict_sequence entered or resumed with i = idx on the
\* buffer buf: StopIteration when the range is used up, else one iteration up
\* to its yield, or up to the IndexError of the write
Loop(buf, idx) ==
    LET offset == ListLen(pargs.labels)
        batch == BatchOf(pargs.streams)
    IN  IF idx >= offset + pargs.steps
        THEN /\ gpc' = "done"
             /\ inputs' = buf
             /\ i' = i
             /\ UNCHANGED <<emitted, queries, lastq, hist>>
        ELSE LET rows == QueryRows(buf, idx)
                 times == QueryTimes(buf, idx)
             IN  \E drawn \in [rows -> PdfDraws] :
                 LET pdfs == [r \in rows |-> drawn[r].pdf]
                     chars == [r \in rows |-> drawn[r].c]
                 IN
                    /\ queries' = queries + 1
                    /\ lastq' = [made |-> TRUE, i |-> idx, rows |-> rows,
                                 times |-> times, used |-> UsedTime(times),
                                 pdfs |-> pdfs, chars |-> chars]
                    /\ i' = idx
                    /\ IF CanBroadcast(batch, chars)
                       THEN /\ inputs' = WriteStep(buf, idx, chars)
                            /\ emitted' = Append(emitted,
                                                 Yielded(pargs.streams, chars))
                            /\ hist' = Append(hist, chars)
                            /\ gpc' = "suspended"
                       ELSE /\ inputs' = buf
                            /\ gpc' = "error"
                            /\ UNCHANGED <<emitted, hist>>

\* the first next() on the generator: the body runs from its first line
GenStart ==
    /\ gpc = "created"
    /\ Loop(SeedBuffer(pargs.labels, pargs.steps, BatchOf(pargs.streams)),
            ListLen(pargs.labels))
    /\ UNCHANGED <<pargs, textVars, batchVars>>

\* a later next(): the body resumes after the yield
GenResume ==
    /\ gpc = "suspended"
    /\ Loop(inputs, i + 1)
    /\ UNCHANGED <<pargs, textVars, batchVars>>

SeqInit ==
    /\ pargs \in UNION {[idle : {FALSE}, labels : Lists(Classes, n),
                         steps : 0..MaxGen, streams : 1..MaxStreams] :
                        n \in 1..MaxSeed}
    /\ gpc = "created"
    /\ inputs = <<>>
    /\ i = 0
    /\ emitted = <<>>
    /\ queries = 0
    /\ lastq = NoQuery
    /\ hist = <<>>
    /\ IdleText
    /\ IdleBatch

SeqNext == GenStart \/ GenResume

SpecSeq == SeqInit /\ [][SeqNext]_vars

\* ------------------------------------------------ predict_sequence claims

Offset == ListLen(pargs.labels)

Batch_ == BatchOf(pargs.streams)

\* C6: the generator yields exactly `steps` elements and is then exhausted:
\* it never ends by an error and ends only after `steps` elements; every
\* element is one integer for streams = 1 and a list of exactly `streams`
\* integers otherwise.
C6_YieldsStepsElements ==
    /\ Len(emitted) <= pargs.steps
    /\ gpc # "error"
    /\ gpc = "done" => Len(emitted) = pargs.steps
    /\ \A n \in DOMAIN emitted :
          IF pargs.streams = 1
          THEN ~emitted[n].list /\ emitted[n].v \in Classes
          ELSE /\ emitted[n].list
               /\ DOMAIN emitted[n].v = 0..(pargs.streams - 1)
               /\ \A r \in DOMAIN emitted[n].v : emitted[n].v[r] \in Classes

\* C7: the query of time step i is made on the time steps [0, i) of all
\* max(2, streams) rows of the buffer, and the symbol of every row is drawn
\* from the distribution returned for time step i-1 of that row.
C7_QueryOnTimePrefix ==
    lastq.made =>
        /\ lastq.rows = 0..(Batch_ - 1)
        /\ lastq.times = lastq.i
        /\ lastq.used = lastq.i - 1
        /\ \A r \in 0..(Batch_ - 1) :
              /\ r \in DOMAIN lastq.chars
              /\ lastq.chars[r] \in Outcomes(lastq.pdfs[r])

\* C8: one query per generated time step: none before the first element is
\* asked for, and whenever the consumer holds n elements exactly n queries
\* have been made, with n never above `steps`.
C8_OneQueryPerStep ==
    /\ gpc = "created" => queries = 0
    /\ queries = Len(emitted)
    /\ Len(emitted) <= pargs.steps

\* C9: when the draw of a row fails at some step, that row gets the index of
\* the maximum of its distribution, every other row of the buffer still gets
\* a symbol sampled from its own distribution, and no error ends the
\* generation.
C9_GreedyFallback ==
    (lastq.made /\ \E r \in lastq.rows : ~lastq.pdfs[r].ok) =>
        /\ \A r \in lastq.rows :
              ~lastq.pdfs[r].ok => lastq.chars[r] = lastq.pdfs[r].argmax
        /\ \A r \in 0..(Batch_ - 1) :
              /\ r \in lastq.rows
              /\ lastq.pdfs[r].ok => lastq.chars[r] \in lastq.pdfs[r].draws
        /\ gpc # "error"

\* the buffer after n emitted elements: seed one-hot before the offset, one
\* 1 per row at the symbol selected for the row in each generated step, zero
\* from time offset + n on
BufferShape ==
    gpc # "created" =>
        /\ Len(hist) = Len(emitted)
        /\ DOMAIN inputs = 0..(Batch_ - 1)
        /\ \A r \in DOMAIN inputs :
              /\ DOMAIN inputs[r] = 0..(Offset + pargs.steps - 1)
              /\ \A t \in DOMAIN inputs[r] :
                    IF t < Offset
                    THEN inputs[r][t] = OneHot(LayerSize - 1, pargs.labels[t])
                    ELSE IF t < Offset + Len(emitted)
                    THEN /\ Cardinality({c \in Classes :
                                           inputs[r][t][c] = 1}) = 1
                         /\ inputs[r][t] =
                              OneHot(LayerSize - 1,
                                     Broadcast(hist[t - Offset + 1], r))
                    ELSE \A c \in Classes : inputs[r][t][c] = 0

\* a step of the generator changes the buffer at most at time offset + n,
\* and only when it emits the element n + 1
BufferStep ==
    gpc # "created" =>
        /\ Len(emitted') \in {Len(emitted), Len(emitted) + 1}
        /\ \A r \in DOMAIN inputs :
              \A t \in DOMAIN inputs[r] :
                 (t # Offset + Len(emitted) \/ Len(emitted') = Len(emitted))
                    => inputs'[r][t] = inputs[r][t]

====
